---------------------------- MODULE Spec2Model ----------------------------
(***************************************************************************)
(* A model of lamp-drpc: the tag extractor (metadata.rs), the art          *)
(* fingerprinter (hash_filename), the art upload pipeline                  *)
(* (write_album_art) and the polling loop of main() with its art cache.    *)
(*                                                                         *)
(* Strings whose content the code inspects (tag values, fingerprint keys,  *)
(* paths) are sequences of byte values.  URLs returned by the image host   *)
(* are opaque and are TLA+ strings.  Option<T> is a sequence of length at  *)
(* most one: None is << >> and Some(x) is <<x>>.                           *)
(*                                                                         *)
(* The cache file link_hash.json appears at two levels.  In the polling    *)
(* specification hash_file is the mapping a load of the file would return  *)
(* (valid is FALSE when the file holds no JSON object).  In the cache-file *)
(* specification c_file is the file's bytes, written and parsed byte by    *)
(* byte, with keys and URLs as byte strings.                               *)
(*                                                                         *)
(* error_log::log_error is taken to succeed (its sink is writable); the    *)
(* presence variable is the last request handed to the Discord client,     *)
(* whatever the client answers.                                            *)
(***************************************************************************)
EXTENDS Integers, Sequences, FiniteSets, TLC

None == << >>
Some(x) == <<x>>
IsSome(o) == Len(o) = 1
Unwrap(o) == o[1]

(***************************************************************************)
(* Byte strings.                                                           *)
(***************************************************************************)
S_VariousArtists == <<86,97,114,105,111,117,115,32,65,114,116,105,115,116,115>>
S_variousartists == <<118,97,114,105,111,117,115,32,97,114,116,105,115,116,115>>
S_PinkFloyd == <<80,105,110,107,32,70,108,111,121,100>>
S_A == <<65>>
S_T == <<84>>
S_X == <<88>>
S_Zero == <<48>>
S_Empty == << >>
S_CommaSpace == <<44,32>>
S_Dash == <<45>>
S_DotJpg == <<46,106,112,103>>
S_DotPng == <<46,112,110,103>>
S_flac == <<102,108,97,99>>
S_mp3 == <<109,112,51>>
S_wav == <<119,97,118>>
DotByte == 46
PlusByte == 43
DigitZeroByte == 48

\* Vec<String>::join(sep)
RECURSIVE Join(_, _)
Join(vec, sep) ==
    IF Len(vec) = 0 THEN << >>
    ELSE IF Len(vec) = 1 THEN vec[1]
    ELSE vec[1] \o sep \o Join(Tail(vec), sep)

\* str::rsplit_once(c): None, or Some(<<before, after>>) at the last c.
RECURSIVE LastIndexOf(_, _, _)
LastIndexOf(s, c, i) ==
    IF i = 0 THEN 0
    ELSE IF s[i] = c THEN i
    ELSE LastIndexOf(s, c, i - 1)

rsplit_once(s, c) ==
    LET i == LastIndexOf(s, c, Len(s))
    IN  IF i = 0 THEN None
        ELSE Some(<<SubSeq(s, 1, i - 1), SubSeq(s, i + 1, Len(s))>>)

(***************************************************************************)
(* 32-bit words are pairs <<hi, lo>> of 16-bit halves, so that no          *)
(* intermediate value leaves the checker's integer range.                  *)
(***************************************************************************)
Half == 65536

RECURSIVE Xor(_, _)
Xor(a, b) ==
    IF a = 0 THEN b
    ELSE IF b = 0 THEN a
    ELSE ((a + b) % 2) + 2 * Xor(a \div 2, b \div 2)

Xor32(x, y) == <<Xor(x[1], y[1]), Xor(x[2], y[2])>>

\* CRC_32_CKSUM of the crc crate: width 32, poly 0x04c11db7, init 0,
\* no reflection, xorout 0xffffffff.
CrcPoly == <<1217, 7607>>
CrcXorOut == <<65535, 65535>>

ShiftLeft1(x) ==
    <<(x[1] * 2 + x[2] \div 32768) % Half, (x[2] * 2) % Half>>

CrcBitStep(x) ==
    IF x[1] >= 32768 THEN Xor32(ShiftLeft1(x), CrcPoly) ELSE ShiftLeft1(x)

RECURSIVE CrcBits(_, _)
CrcBits(x, n) == IF n = 0 THEN x ELSE CrcBits(CrcBitStep(x), n - 1)

CrcTable == [b \in 0..255 |-> CrcBits(<<b * 256, 0>>, 8)]

CrcUpdate(crc, byte) ==
    LET idx == Xor(crc[1] \div 256, byte)
        shifted == <<(crc[1] % 256) * 256 + crc[2] \div 256, (crc[2] % 256) * 256>>
    IN  Xor32(shifted, CrcTable[idx])

RECURSIVE CrcFold(_, _, _)
CrcFold(crc, bytes, i) ==
    IF i > Len(bytes) THEN crc
    ELSE LET next == CrcUpdate(crc, bytes[i])
         IN  IF next[1] >= 0 THEN CrcFold(next, bytes, i + 1) ELSE next

\* CRC32.checksum(bytes) (metadata.rs:34, 60)
checksum(bytes) == Xor32(CrcFold(<<0, 0>>, bytes, 1), CrcXorOut)

\* u32::to_string on a <<hi, lo>> word: decimal digits, no leading zeros.
RECURSIVE U32Digits(_)
U32Digits(x) ==
    LET qhi == x[1] \div 10
        t   == (x[1] % 10) * Half + x[2]
        qlo == t \div 10
        d   == t % 10
    IN  IF qhi = 0 /\ qlo = 0 THEN <<DigitZeroByte + d>>
        ELSE U32Digits(<<qhi, qlo>>) \o <<DigitZeroByte + d>>

\* u16::to_string
U16ToString(n) == U32Digits(<<0, n>>)

\* str::parse::<u16>(): an optional '+', then one or more decimal digits,
\* value at most 65535.  None stands for Err.
U16Max == 65535

RECURSIVE ParseDigits(_, _, _)
ParseDigits(s, i, acc) ==
    IF i > Len(s) THEN Some(acc)
    ELSE IF s[i] < DigitZeroByte \/ s[i] > DigitZeroByte + 9 THEN None
    ELSE LET v == acc * 10 + (s[i] - DigitZeroByte)
         IN  IF v > U16Max THEN None ELSE ParseDigits(s, i + 1, v)

ParseU16(s) ==
    LET body == IF Len(s) > 0 /\ s[1] = PlusByte THEN Tail(s) ELSE s
    IN  IF Len(body) = 0 THEN None ELSE ParseDigits(body, 1, 0)

\* A wrapping cast (year as u16) in place of the checked conversion.
TryFromI32_wrapping(y) == Some(y % (U16Max + 1))

\* u16::try_from(i32)
TryFromI32(y) == IF y >= 0 /\ y <= U16Max THEN Some(y) ELSE None

(***************************************************************************)
(* metadata.rs: the metadata package and the fingerprint.                  *)
(***************************************************************************)
\* impl Default for MetadataPackage
DefaultPack ==
    [album_artist |-> None, album |-> None, artist |-> S_Empty,
     title |-> S_Empty, album_art |-> None]

\* struct AlbumArt
AlbumArt(filename, data) == [filename |-> filename, data |-> data]

\* The composite string without the year: the third push_str forgotten.
metadata_string_no_year(album_artist, album, year) ==
    (IF IsSome(album_artist) THEN Unwrap(album_artist) ELSE S_Zero)
    \o (IF IsSome(album) THEN Unwrap(album) ELSE S_Zero)

\* The composite string of hash_filename (metadata.rs:51-57): the three
\* fields, each replaced by "0" (year: 0) when absent, without separators.
metadata_string(album_artist, album, year) ==
    (IF IsSome(album_artist) THEN Unwrap(album_artist) ELSE S_Zero)
    \o (IF IsSome(album) THEN Unwrap(album) ELSE S_Zero)
    \o U16ToString(IF IsSome(year) THEN Unwrap(year) ELSE 0)

\* The composite string of hash_filename, with the fields in another order:
\* a plausible slip in the three push_str calls.
hash_filename_swapped(album_artist, album, year, mime_type, image_data) ==
    LET swapped_string ==
            (IF IsSome(album) THEN Unwrap(album) ELSE S_Zero)
            \o (IF IsSome(album_artist) THEN Unwrap(album_artist) ELSE S_Zero)
            \o U16ToString(IF IsSome(year) THEN Unwrap(year) ELSE 0)
    IN  U32Digits(checksum(swapped_string)) \o S_Dash
        \o U32Digits(checksum(image_data)) \o mime_type

hash_filename(album_artist, album, year, mime_type, image_data) ==
    U32Digits(checksum(metadata_string(album_artist, album, year))) \o S_Dash
    \o U32Digits(checksum(image_data)) \o mime_type

\* The album handed to hash_filename is metadata_pack.album, which the
\* policy has already adjusted; the mutant hands over the album as tagged.
fingerprint_album_tagged(metadata_pack_album, album_tag) == album_tag

fingerprint_album(metadata_pack_album, album_tag) == metadata_pack_album

\* Results of the readers: a panic (with its site), None, or Some(pack);
\* logs lists the diagnostics handed to error_log::log_error, in order.
Panicked(site, logs) ==
    [kind |-> "panic", site |-> site, pack |-> DefaultPack, logs |-> logs]
ReturnNone(logs) ==
    [kind |-> "none", site |-> "", pack |-> DefaultPack, logs |-> logs]
ReturnSome(pack, logs) ==
    [kind |-> "some", site |-> "", pack |-> pack, logs |-> logs]

\* The first picture of the file, turned into an AlbumArt (or None), and
\* the diagnostics of that step.
vorbis_album_art(file, album_artist, album, album_year) ==
    IF ~file.cover_readable THEN [art |-> None, logs |-> <<"art_unreadable">>]
    ELSE IF Len(file.pictures) = 0 THEN [art |-> None, logs |-> << >>]
    ELSE LET album_art == file.pictures[1]
         IN  CASE album_art.mime_type = "image/jpeg" ->
                    [art |-> Some(AlbumArt(hash_filename(album_artist, album,
                                 album_year, S_DotJpg, album_art.data),
                                 album_art.data)),
                     logs |-> << >>]
               [] album_art.mime_type = "image/png" ->
                    [art |-> Some(AlbumArt(hash_filename(album_artist, album,
                                 album_year, S_DotPng, album_art.data),
                                 album_art.data)),
                     logs |-> << >>]
               [] OTHER -> [art |-> None, logs |-> <<"unsupported_mime">>]

read_vorbis(file, va_album_individual) ==
    IF ~file.readable THEN ReturnNone(<<"vorbis_unreadable">>)
    ELSE
    LET album_artist_vec == file.albumartist
        album_vec == file.album
        artist_vec == file.artist
        title_vec == file.title
        year_vec == file.year
        album_artist == IF Len(album_artist_vec) > 0
                        THEN Some(Join(album_artist_vec, S_CommaSpace))
                        ELSE None
        album_tag == IF Len(album_vec) > 0 THEN Some(album_vec[1]) ELSE None
        \* line 95: && short-circuits left to right; [0] panics on an
        \* empty Vec.
        index_panics ==
            /\ va_album_individual
            /\ \/ Len(album_artist_vec) = 0
               \/ /\ album_artist_vec[1] = S_VariousArtists
                  /\ Len(album_vec) = 0
        suppressed ==
            /\ va_album_individual
            /\ Len(album_artist_vec) > 0
            /\ album_artist_vec[1] = S_VariousArtists
            /\ Len(album_vec) > 0
            /\ album_vec[1] = S_VariousArtists
        album == IF suppressed THEN None ELSE album_tag
        year_ok == Len(year_vec) > 0 /\ IsSome(ParseU16(year_vec[1]))
        album_year == IF year_ok THEN ParseU16(year_vec[1]) ELSE None
        year_logs == IF Len(year_vec) > 0 /\ ~year_ok
                     THEN <<"year_not_u16">> ELSE << >>
        art == vorbis_album_art(file, album_artist,
                                fingerprint_album(album, album_tag), album_year)
    IN  IF index_panics THEN Panicked("read_vorbis:index", << >>)
        ELSE IF Len(artist_vec) = 0 THEN ReturnNone(<< >>)
        ELSE IF Len(title_vec) = 0 THEN ReturnNone(<< >>)
        ELSE ReturnSome([album_artist |-> album_artist,
                         album |-> album,
                         artist |-> Join(artist_vec, S_CommaSpace),
                         title |-> title_vec[1],
                         album_art |-> art.art],
                        year_logs \o art.logs)

id3_album_art(file, album_artist, album, album_year) ==
    IF Len(file.pictures) = 0 THEN None
    ELSE LET album_art == file.pictures[1]
         IN  CASE album_art.mime_type = "image/jpeg" ->
                    Some(AlbumArt(hash_filename(album_artist, album, album_year,
                                  S_DotJpg, album_art.data), album_art.data))
               [] album_art.mime_type = "image/png" ->
                    Some(AlbumArt(hash_filename(album_artist, album, album_year,
                                  S_DotPng, album_art.data), album_art.data))
               [] OTHER -> None

read_id3(file, va_album_individual) ==
    IF ~file.readable THEN ReturnNone(<<"id3_unreadable">>)
    ELSE
    LET album_artist == file.album_artist
        album_artist_compare ==
            IF IsSome(album_artist) THEN Unwrap(album_artist) ELSE S_Empty
        album_tag == IF IsSome(file.id3_album) THEN Unwrap(file.id3_album)
                     ELSE S_Empty
        album ==
            IF \/ /\ va_album_individual
                  /\ album_artist_compare = S_VariousArtists
                  /\ album_tag = S_VariousArtists
               \/ album_tag = S_Empty
            THEN None ELSE Some(album_tag)
        year_ok == IsSome(file.id3_year) /\ IsSome(TryFromI32(Unwrap(file.id3_year)))
        album_year == IF year_ok THEN TryFromI32(Unwrap(file.id3_year)) ELSE None
        year_logs == IF IsSome(file.id3_year) /\ ~year_ok
                     THEN <<"year_not_u16">> ELSE << >>
    IN  IF ~IsSome(file.artists) THEN ReturnNone(<<"no_artist">>)
        ELSE IF ~IsSome(file.id3_title) THEN ReturnNone(<<"no_title">>)
        ELSE ReturnSome([album_artist |-> album_artist,
                         album |-> album,
                         artist |-> Join(Unwrap(file.artists), S_CommaSpace),
                         title |-> Unwrap(file.id3_title),
                         album_art |-> id3_album_art(file, album_artist,
                                          fingerprint_album(album, file.id3_album),
                                          album_year)],
                        year_logs)

read_metadata(active_file_path, file, va_album_individual) ==
    LET split == rsplit_once(active_file_path, DotByte)
    IN  IF ~IsSome(split) THEN Panicked("read_metadata:rsplit_once", << >>)
        ELSE LET ext == Unwrap(split)[2]
             IN  CASE ext = S_flac -> read_vorbis(file, va_album_individual)
                   [] ext = S_mp3 \/ ext = S_wav ->
                        read_id3(file, va_album_individual)
                   [] OTHER -> ReturnNone(<<"unsupported_format">>)

(***************************************************************************)
(* Inputs of the extraction specification: what the tag libraries report   *)
(* for a file.  A file is a record                                         *)
(*   readable, cover_readable : the container / the picture block parses   *)
(*   albumartist, album, artist, title, year : the values of get_tag(..)    *)
(*   album_artist, id3_album, artists, id3_title, id3_year : the ID3       *)
(*       accessors' Options                                                *)
(*   pictures : the embedded images, [mime_type, data]                     *)
(***************************************************************************)
P_a_flac == <<97,46,102,108,97,99>>
P_b_mp3 == <<98,46,109,112,51>>
P_c_wav == <<99,46,119,97,118>>
P_d_ogg == <<100,46,111,103,103>>
P_e_FLAC == <<101,46,70,76,65,67>>
P_noext == <<110,111,101,120,116>>
P_dir_flac == <<120,46,102,108,97,99,47,121>>

S_2001 == <<50,48,48,49>>
S_Plus7 == <<43,55>>
S_NotAYear == <<50,48,120>>
S_70000 == <<55,48,48,48,48>>
B1 == <<1,2>>
B2 == <<3>>

Picture(mime_type, data) == [mime_type |-> mime_type, data |-> data]

PictureLists ==
    { << >>, <<Picture("image/jpeg", B1)>>, <<Picture("image/png", B1)>>,
      <<Picture("image/gif", B1)>>,
      <<Picture("image/jpeg", B2), Picture("image/png", B1)>> }

BlankFile ==
    [readable |-> TRUE, cover_readable |-> TRUE,
     albumartist |-> << >>, album |-> << >>, artist |-> << >>,
     title |-> << >>, year |-> << >>,
     album_artist |-> None, id3_album |-> None, artists |-> None,
     id3_title |-> None, id3_year |-> None,
     pictures |-> << >>]

VorbisFiles ==
    { [BlankFile EXCEPT !.albumartist = aa, !.album = al, !.artist = ar,
                        !.title = ti, !.year = yr, !.pictures = pics]
      : aa \in { << >>, <<S_VariousArtists>>, <<S_PinkFloyd>>,
                 <<S_VariousArtists, S_X>>, <<S_variousartists>> },
        al \in { << >>, <<S_VariousArtists>>, <<S_X>>, <<S_VariousArtists, S_X>> },
        ar \in { << >>, <<S_A>>, <<S_A, S_X>> },
        ti \in { << >>, <<S_T>>, <<S_T, S_X>> },
        yr \in { << >>, <<S_2001>>, <<S_Plus7>>, <<S_NotAYear>>, <<S_70000>> },
        pics \in PictureLists }

Id3Files ==
    { [BlankFile EXCEPT !.album_artist = aa, !.id3_album = al, !.artists = ar,
                        !.id3_title = ti, !.id3_year = yr, !.pictures = pics]
      : aa \in { None, Some(S_VariousArtists), Some(S_PinkFloyd), Some(S_Zero) },
        al \in { None, Some(S_VariousArtists), Some(S_X), Some(S_Empty),
                 Some(S_Zero) },
        ar \in { None, Some(<<S_A>>), Some(<<S_A, S_X>>) },
        ti \in { None, Some(S_T) },
        yr \in { None, Some(2001), Some(0), Some(70000), Some(-1) },
        pics \in PictureLists }

UnreadableFiles ==
    { [BlankFile EXCEPT !.readable = FALSE],
      [BlankFile EXCEPT !.albumartist = <<S_PinkFloyd>>, !.album = <<S_X>>,
                        !.artist = <<S_A>>, !.title = <<S_T>>,
                        !.pictures = <<Picture("image/jpeg", B1)>>,
                        !.cover_readable = FALSE] }

\* The (path, file) pairs the extraction specification starts from.
MetaInputs ==
    ({P_a_flac} \X VorbisFiles)
    \cup ({P_b_mp3} \X Id3Files)
    \cup ({P_a_flac, P_b_mp3, P_c_wav, P_d_ogg, P_e_FLAC, P_noext, P_dir_flac}
          \X (UnreadableFiles
              \cup { [BlankFile EXCEPT !.albumartist = <<S_PinkFloyd>>,
                                       !.album = <<S_X>>, !.artist = <<S_A>>,
                                       !.title = <<S_T>>,
                                       !.album_artist = Some(S_PinkFloyd),
                                       !.id3_album = Some(S_X),
                                       !.artists = Some(<<S_A>>),
                                       !.id3_title = Some(S_T),
                                       !.pictures = <<Picture("image/png", B2)>>] }))

\* The fingerprint inputs the hashing specification starts from.
HashInputs ==
    [album_artist : { None, Some(S_VariousArtists), Some(S_Zero), Some(S_A),
                      Some(S_Empty) },
     album : { None, Some(S_VariousArtists), Some(S_Zero), Some(S_X) },
     year : { None, Some(0), Some(7), Some(2001), Some(U16Max) },
     mime_type : { S_DotJpg, S_DotPng },
     image_data : { B1, B2, << >> }]

\* How many times the hashing specification calls hash_filename on one input.
MaxCalls == 2

(***************************************************************************)
(* main.rs: the files the player can report in the polling specification,  *)
(* the art cache and the upload pipeline.                                  *)
(***************************************************************************)
P_f_flac == <<102,46,102,108,97,99>>
P_g_mp3 == <<103,46,109,112,51>>

PlayerPaths == {P_a_flac, P_b_mp3, P_c_wav, P_d_ogg, P_noext, P_f_flac, P_g_mp3}

\* What the tag libraries report for each of these files.
TrackFile(path) ==
    CASE path = P_a_flac ->
            [BlankFile EXCEPT !.albumartist = <<S_VariousArtists>>,
                              !.album = <<S_VariousArtists>>,
                              !.artist = <<S_A>>, !.title = <<S_T>>,
                              !.year = <<S_2001>>,
                              !.pictures = <<Picture("image/jpeg", B1)>>]
      [] path = P_b_mp3 ->
            [BlankFile EXCEPT !.album_artist = Some(S_PinkFloyd),
                              !.id3_album = Some(S_X),
                              !.artists = Some(<<S_A>>),
                              !.id3_title = Some(S_T),
                              !.id3_year = Some(2001),
                              !.pictures = <<Picture("image/png", B2)>>]
      [] path = P_c_wav ->
            [BlankFile EXCEPT !.id3_album = Some(S_X),
                              !.artists = Some(<<S_A, S_X>>),
                              !.id3_title = Some(S_T)]
      [] path = P_f_flac ->
            [BlankFile EXCEPT !.album = <<S_X>>, !.artist = <<S_A>>,
                              !.title = <<S_T>>]
      [] path = P_g_mp3 ->
            [BlankFile EXCEPT !.id3_album = Some(S_X), !.id3_title = Some(S_T)]
      [] OTHER -> BlankFile

\* read_metadata on each file, computed once per policy value.
Extracted ==
    [va \in BOOLEAN |->
        [path \in PlayerPaths |-> read_metadata(path, TrackFile(path), va)]]

\* The URLs the image host hands out, and the durations the player reports.
Urls == {"u1", "u2"}
Durations == {None, Some(180)}

\* HashMap<String, String>: a function from the keys present to URLs.
EmptyMap == [k \in {} |-> ""]

\* An insert that starts from a fresh map: only the new entry is left.
hash_insert_fresh(map, key, url) == [k \in {key} |-> url]

\* HashMap::insert (main.rs:203): create or overwrite.
hash_insert(map, key, url) ==
    [k \in DOMAIN map \cup {key} |-> IF k = key THEN url ELSE map[k]]

\* HashMap::get (main.rs:154)
hash_get(map, key) == IF key \in DOMAIN map THEN Some(map[key]) ELSE None

\* main.rs:166, "if true": the liveness check of the cached link is
\* commented out (158-164) and the link always counts as good.  The mutant
\* is a check that always fails.
link_status_bad(live_urls, image_link) == FALSE

link_status_good(live_urls, image_link) == TRUE

\* main.rs:202 (and 179): the link shown after a successful upload; the
\* mutant forgets the assignment.
link_not_assigned(active_link, filename_link_pair) == active_link

link_after_upload(active_link, filename_link_pair) ==
    Some(filename_link_pair[2])

\* write_album_art (main.rs:561-677).  `outcome` names the first step that
\* fails ("ok": none does), `url` is what the host returns.  The result is
\* the Result<(String, String)> and the temporary files left on disk.
UploadOutcomes ==
    {"decode", "pixel_type", "resize", "create", "encode", "flush",
     "upload", "remove", "ok"}

\* The steps from File::create on, in order: an outcome at or after
\* "encode" means the temporary file was created.
CreatesTempFile(outcome) ==
    outcome \in {"encode", "flush", "upload", "remove", "ok"}

\* The host accepted the upload and the URL exists.
HostStored(outcome) == outcome \in {"remove", "ok"}

write_album_art(album_art, outcome, url, tmp) ==
    LET split == Unwrap(rsplit_once(album_art.filename, DotByte))
        mime_type == split[2]
        tempfile_path == split[1] \o <<DotByte>> \o mime_type
    IN  IF ~CreatesTempFile(outcome)
        THEN [ok |-> FALSE, pair |-> << >>, tmp |-> tmp,
              tempfile_path |-> tempfile_path]
        ELSE IF outcome = "ok"
        THEN [ok |-> TRUE, pair |-> <<album_art.filename, url>>,
              tmp |-> tmp \ {tempfile_path},
              tempfile_path |-> tempfile_path]
        ELSE [ok |-> FALSE, pair |-> << >>,
              tmp |-> tmp \cup {tempfile_path},
              tempfile_path |-> tempfile_path]

\* The square branch without its upper limit: the "> 1024" arm forgotten.
square_dst_no_upper_limit(side) ==
    IF side < 512 THEN <<512, 512>> ELSE <<side, side>>

\* main.rs:588-595: (dst_width, dst_height) of an image that is square.
square_dst(side) ==
    IF side < 512 THEN <<512, 512>>
    ELSE IF side > 1024 THEN <<1024, 1024>>
    ELSE <<side, side>>

\* main.rs:609-631: (dst_width, dst_height) of an image that is not square.
cropped_dst(dimensions) ==
    LET smaller_dimension == IF dimensions[1] > dimensions[2]
                             THEN dimensions[2] ELSE dimensions[1]
    IN  IF 512 < smaller_dimension /\ smaller_dimension < 1024
        THEN <<smaller_dimension, smaller_dimension>>
        ELSE IF 1024 < smaller_dimension THEN <<1024, 1024>>
        ELSE <<512, 512>>

\* main.rs:588-644: the size of dst_image and the resize options: None
\* (stretch to the destination), or the anchor of fit_into_destination.
resize_plan(dimensions) ==
    IF dimensions[1] = dimensions[2]
    THEN [dst |-> square_dst(dimensions[1]), fit_into_destination |-> None]
    ELSE [dst |-> cropped_dst(dimensions),
          fit_into_destination |-> Some(<<"0.5", "0.5">>)]

\* The widths and heights of the decoded images of the image-size
\* specification, around the two limits.
ImageSides == {1, 300, 511, 512, 513, 800, 1023, 1024, 1025, 2000}

\* write_to_hash_file (main.rs:506-539): the whole map replaces the file's
\* content; a failed open leaves the file, a failed write leaves it
\* truncated.  The caller ignores the Result.
PersistOutcomes == {"ok", "open", "write"}

write_to_hash_file(file, map, outcome) ==
    CASE outcome = "ok" -> [valid |-> TRUE, map |-> map]
      [] outcome = "open" -> file
      [] OTHER -> [valid |-> FALSE, map |-> EmptyMap]

(***************************************************************************)
(* main.rs: the cache file as text.  serde_json::to_string_pretty and      *)
(* serde_json::from_reader on a HashMap<String, String>, byte by byte.     *)
(***************************************************************************)
LBraceByte == 123
RBraceByte == 125
QuoteByte == 34
BackslashByte == 92
ColonByte == 58
CommaByte == 44
SpaceByte == 32
NewlineByte == 10
LetterNByte == 110

\* JSON whitespace: space, line feed, tab, carriage return.
JsonWhitespace == {SpaceByte, NewlineByte, 9, 13}

\* The escaped form of a string between its quotes: '"' and '\' get a
\* backslash, a line feed becomes \n (the strings of this model hold no
\* other control character).
RECURSIVE json_escape(_)
json_escape(s) ==
    IF s = << >> THEN << >>
    ELSE (CASE Head(s) = QuoteByte -> <<BackslashByte, QuoteByte>>
            [] Head(s) = BackslashByte -> <<BackslashByte, BackslashByte>>
            [] Head(s) = NewlineByte -> <<BackslashByte, LetterNByte>>
            [] OTHER -> <<Head(s)>>)
         \o json_escape(Tail(s))

\* One entry of the pretty form: two blanks, "key": "value".
PrettyEntry(entry) ==
    <<SpaceByte, SpaceByte, QuoteByte>> \o json_escape(entry[1])
    \o <<QuoteByte, ColonByte, SpaceByte, QuoteByte>> \o json_escape(entry[2])
    \o <<QuoteByte>>

RECURSIVE PrettyEntries(_)
PrettyEntries(entries) ==
    IF Len(entries) = 1 THEN PrettyEntry(entries[1])
    ELSE PrettyEntry(entries[1]) \o <<CommaByte, NewlineByte>>
         \o PrettyEntries(Tail(entries))

\* serde_json::to_string_pretty (main.rs:530) of a map whose iteration
\* yields `entries`, a sequence of <<key, value>>.
to_string_pretty(entries) ==
    IF entries = << >> THEN <<LBraceByte, RBraceByte>>
    ELSE <<LBraceByte, NewlineByte>> \o PrettyEntries(entries)
         \o <<NewlineByte, RBraceByte>>

\* The orders in which a HashMap can yield its entries: every one.
IterationOrders(map) ==
    LET n == Cardinality(DOMAIN map)
    IN  { [i \in 1..n |-> <<f[i], map[f[i]]>>] :
            f \in { g \in [1..n -> DOMAIN map] :
                        \A i, j \in 1..n : g[i] = g[j] => i = j } }

\* The deserializer reading one byte: it expects '{', then "key": "value"
\* pairs separated by commas, then '}', with whitespace between tokens; a
\* repeated key keeps its last value; anything else is an error (so are the
\* escapes other than \", \\ and \n, which the texts of this model do
\* not hold).
JsonStart == [mode |-> "start", map |-> EmptyMap, key |-> << >>, cur |-> << >>]

JsonStep(st, b) ==
    LET to(mode) == [st EXCEPT !.mode = mode]
        err == to("error")
        unescaped == CASE b = QuoteByte -> <<QuoteByte>>
                       [] b = BackslashByte -> <<BackslashByte>>
                       [] b = LetterNByte -> <<NewlineByte>>
                       [] OTHER -> << >>
    IN  CASE st.mode = "start" ->
                IF b \in JsonWhitespace THEN st
                ELSE IF b = LBraceByte THEN to("first") ELSE err
          [] st.mode = "first" ->
                IF b \in JsonWhitespace THEN st
                ELSE IF b = QuoteByte THEN [st EXCEPT !.mode = "key", !.cur = << >>]
                ELSE IF b = RBraceByte THEN to("end") ELSE err
          [] st.mode = "more" ->
                IF b \in JsonWhitespace THEN st
                ELSE IF b = QuoteByte THEN [st EXCEPT !.mode = "key", !.cur = << >>]
                ELSE err
          [] st.mode = "key" ->
                IF b = QuoteByte
                THEN [st EXCEPT !.mode = "colon", !.key = st.cur]
                ELSE IF b = BackslashByte THEN to("key_esc")
                ELSE IF b < SpaceByte THEN err
                ELSE [st EXCEPT !.cur = Append(st.cur, b)]
          [] st.mode = "key_esc" ->
                IF unescaped = << >> THEN err
                ELSE [st EXCEPT !.mode = "key", !.cur = st.cur \o unescaped]
          [] st.mode = "colon" ->
                IF b \in JsonWhitespace THEN st
                ELSE IF b = ColonByte THEN to("value") ELSE err
          [] st.mode = "value" ->
                IF b \in JsonWhitespace THEN st
                ELSE IF b = QuoteByte THEN [st EXCEPT !.mode = "val", !.cur = << >>]
                ELSE err
          [] st.mode = "val" ->
                IF b = QuoteByte
                THEN [st EXCEPT !.mode = "next",
                                !.map = hash_insert(st.map, st.key, st.cur)]
                ELSE IF b = BackslashByte THEN to("val_esc")
                ELSE IF b < SpaceByte THEN err
                ELSE [st EXCEPT !.cur = Append(st.cur, b)]
          [] st.mode = "val_esc" ->
                IF unescaped = << >> THEN err
                ELSE [st EXCEPT !.mode = "val", !.cur = st.cur \o unescaped]
          [] st.mode = "next" ->
                IF b \in JsonWhitespace THEN st
                ELSE IF b = CommaByte THEN to("more")
                ELSE IF b = RBraceByte THEN to("end") ELSE err
          [] st.mode = "end" ->
                IF b \in JsonWhitespace THEN st ELSE err
          [] OTHER -> err

RECURSIVE JsonFold(_, _, _)
JsonFold(st, text, i) ==
    IF i > Len(text) THEN st
    ELSE LET next == JsonStep(st, text[i])
         IN  IF next.mode = "error" THEN next ELSE JsonFold(next, text, i + 1)

\* serde_json::from_reader (main.rs:485): Ok(map) or Err.
from_reader(text) ==
    LET st == JsonFold(JsonStart, text, 1)
    IN  IF st.mode = "end" THEN [ok |-> TRUE, map |-> st.map]
        ELSE [ok |-> FALSE, map |-> EmptyMap]

\* The file link_hash.json: absent, or present with its bytes.
NoHashFile == [exists |-> FALSE, text |-> << >>]
HashFile(text) == [exists |-> TRUE, text |-> text]

\* An open brace and a line feed only.
S_UnclosedHashFile == <<LBraceByte, NewlineByte>>

\* What load_hash_file writes into the file it creates (main.rs:496):
\* write!(hash_file, "{{\n}}"), that is "{", line feed, "}".
S_NewHashFile == <<LBraceByte, NewlineByte, RBraceByte>>

\* load_hash_file (main.rs:463-504).  `outcome` names the call that fails:
\* fs::exists, the open, the write of the new file, or none ("ok").
LoadOutcomes == {"ok", "exists", "open", "write"}

load_hash_file(file, outcome) ==
    IF outcome = "exists" THEN [ok |-> FALSE, map |-> EmptyMap, file |-> file]
    ELSE IF file.exists
    THEN IF outcome = "open" THEN [ok |-> FALSE, map |-> EmptyMap, file |-> file]
         ELSE LET parsed == from_reader(file.text)
              IN  [ok |-> parsed.ok, map |-> parsed.map, file |-> file]
    ELSE IF outcome = "open" THEN [ok |-> FALSE, map |-> EmptyMap, file |-> file]
    ELSE IF outcome = "write"
    THEN [ok |-> FALSE, map |-> EmptyMap, file |-> HashFile(<< >>)]
    ELSE [ok |-> TRUE, map |-> EmptyMap, file |-> HashFile(S_NewHashFile)]

\* The file opened for writing without truncate(true): the bytes beyond the
\* new text stay.
open_and_write_no_truncate(file, text, written) ==
    HashFile(SubSeq(text, 1, written)
             \o SubSeq(file.text, written + 1, Len(file.text)))

\* OpenOptions write + truncate + create, then write! (main.rs:523-531):
\* the file holds the first `written` bytes of the text and nothing else.
open_and_write(file, text, written) == HashFile(SubSeq(text, 1, written))

\* write_to_hash_file (main.rs:506-539) on the file as text: `entries` is
\* the map in its iteration order.  A failed open leaves the file as it
\* is; a failed write leaves the part written before the failure, here
\* nothing or the first half.
write_hash_text(file, entries, outcome, half) ==
    LET hash_string == to_string_pretty(entries)
    IN  CASE outcome = "ok" -> open_and_write(file, hash_string, Len(hash_string))
          [] outcome = "open" -> file
          [] OTHER -> open_and_write(file, hash_string,
                                     IF half THEN Len(hash_string) \div 2 ELSE 0)

\* The keys and URLs of the cache-file specification: short strings, with
\* a quote, a backslash and a line feed among their bytes.
K_a == <<97>>
K_quote == <<98, QuoteByte>>
U_u == <<117>>
U_long == <<118, BackslashByte, NewlineByte, 119>>
CacheKeys == {K_a, K_quote}
CacheUrls == {U_u, U_long}

\* The files the cache-file specification starts from: none, the file a
\* first run creates, a file an earlier run wrote, the same map typed by
\* hand with other spacing, and two files that hold no JSON object.
InitialHashFiles ==
    { NoHashFile,
      HashFile(S_NewHashFile),
      HashFile(to_string_pretty(<<<<K_a, U_long>>, <<K_quote, U_u>>>>)),
      HashFile(<<LBraceByte, SpaceByte, QuoteByte>> \o K_a
               \o <<QuoteByte, SpaceByte, ColonByte, SpaceByte, QuoteByte>>
               \o U_u \o <<QuoteByte, SpaceByte, RBraceByte, NewlineByte,
                            NewlineByte, NewlineByte, NewlineByte,
                            NewlineByte, NewlineByte>>),
      HashFile(<<91, 93>>),
      HashFile(<< >>) }

\* How many entries one behaviour of the cache-file specification inserts.
MaxInserts == 2

\* Bookkeeping of the cache-file specification (not program state): the
\* latest insert, how its persist and the latest load ended.
NoCacheEvent ==
    [m |-> EmptyMap, k |-> << >>, u |-> << >>, inserted |-> FALSE,
     persisted |-> "none", restarted |-> FALSE, load |-> "none",
     was_missing |-> FALSE]

\* The activity handed to set_activity (main.rs:222-272).
NoActivity ==
    [set |-> FALSE, state |-> S_Empty, details |-> S_Empty,
     large_image |-> "", large_text |-> None, path |-> S_Empty]

Activity(pack, image_link, path) ==
    [set |-> TRUE, state |-> pack.artist, details |-> pack.title,
     large_image |-> IF IsSome(image_link) THEN Unwrap(image_link)
                     ELSE "no_album_art",
     large_text |-> pack.album, path |-> path]

\* Bookkeeping of the current iteration (not program state): the steps of
\* its track-change event, and what the process table showed at its end.
NoEvent ==
    [lookup |-> "none", key |-> S_Empty, cached |-> None, cached_live |-> FALSE,
     uploads |-> 0, tmp_created |-> FALSE, upres |-> "none", url |-> "",
     published |-> FALSE, process |-> "none"]

VARIABLES m_pc, m_path, m_file, m_va, m_result, h_in, h_keys,
          pc, panic_site, config_values, filename_hash, hash_file,
          active_file_path, previous_file_path, active_position_duration,
          active_file_image_link, metadata_pack, filename_link_pair,
          tmp_files, presence, player_status, live_urls, ev, before,
          p_a, p_b, p_out, a_in, a_out,
          c_pc, c_file, c_map, c_inserts, c_ev

meta_vars == <<m_pc, m_path, m_file, m_va, m_result>>
hash_vars == <<h_in, h_keys>>
\* main()'s locals and the files it writes
prog_vars == <<config_values, filename_hash, hash_file, active_file_path,
               previous_file_path, active_position_duration,
               active_file_image_link, metadata_pack, filename_link_pair,
               tmp_files, presence, player_status>>
main_vars == <<pc, panic_site, prog_vars, live_urls, ev, before>>
pair_vars == <<p_a, p_b, p_out>>
art_vars == <<a_in, a_out>>
cache_vars == <<c_pc, c_file, c_map, c_inserts, c_ev>>
aux_vars == <<pair_vars, art_vars, cache_vars>>
vars == <<meta_vars, hash_vars, main_vars, aux_vars>>

NoResult == [kind |-> "pending", site |-> "", pack |-> DefaultPack, logs |-> << >>]

MetaIdle ==
    /\ m_pc = "idle"
    /\ m_path = P_noext
    /\ m_file = BlankFile
    /\ m_va = FALSE
    /\ m_result = NoResult

HashIdle ==
    /\ h_in = [album_artist |-> None, album |-> None, year |-> None,
               mime_type |-> S_DotJpg, image_data |-> << >>]
    /\ h_keys = << >>

\* The pair and image-size specifications at rest.
PairIdle ==
    /\ p_a = [album_artist |-> None, album |-> None, year |-> None,
              mime_type |-> S_DotJpg, image_data |-> << >>]
    /\ p_b = p_a
    /\ p_out = << >>

ArtIdle ==
    /\ a_in = [width |-> 1, height |-> 1, outcome |-> "decode"]
    /\ a_out = << >>

CacheIdle ==
    /\ c_pc = "idle"
    /\ c_file = NoHashFile
    /\ c_map = EmptyMap
    /\ c_inserts = 0
    /\ c_ev = NoCacheEvent

AuxIdle == PairIdle /\ ArtIdle /\ CacheIdle

\* main() up to line 131, with the given configuration, cache file content
\* and player status; the daemon does not run when pc = "idle".
MainStart(start_pc, cfg, map, status, live) ==
    /\ pc = start_pc
    /\ panic_site = ""
    /\ config_values = cfg
    /\ hash_file = [valid |-> TRUE, map |-> map]
    /\ filename_hash = map
    /\ active_file_path = S_Empty
    /\ previous_file_path = S_Empty
    /\ active_file_image_link = Some("")
    /\ active_position_duration = None
    /\ metadata_pack = DefaultPack
    /\ filename_link_pair = << >>
    /\ tmp_files = {}
    /\ presence = NoActivity
    /\ player_status = status
    /\ live_urls = live
    /\ ev = NoEvent
    /\ before = [cache |-> map, file |-> [valid |-> TRUE, map |-> map]]

MainIdle ==
    MainStart("idle", [va_album_individual |-> TRUE, catbox_user_hash |-> FALSE],
              EmptyMap, "Stop", {})

(***************************************************************************)
(* The extraction specification: one read_metadata call per input.         *)
(***************************************************************************)
InitMeta ==
    /\ m_pc = "input"
    /\ \E inp \in MetaInputs : m_path = inp[1] /\ m_file = inp[2]
    /\ m_va \in BOOLEAN
    /\ m_result = NoResult
    /\ HashIdle
    /\ MainIdle
    /\ AuxIdle

\* One extraction: read_metadata(&path, &va_album_individual).
ReadMetadata ==
    /\ m_pc = "input"
    /\ m_result' = read_metadata(m_path, m_file, m_va)
    /\ m_pc' = "done"
    /\ UNCHANGED <<m_path, m_file, m_va>>
    /\ UNCHANGED <<hash_vars, main_vars, aux_vars>>

NextMeta == ReadMetadata

SpecMeta == InitMeta /\ [][NextMeta]_vars

(***************************************************************************)
(* The hashing specification: hash_filename called on one input.           *)
(***************************************************************************)
InitHash ==
    /\ h_in \in HashInputs
    /\ h_keys = << >>
    /\ MetaIdle
    /\ MainIdle
    /\ AuxIdle

\* One call of hash_filename on the chosen input.
HashFilename ==
    /\ Len(h_keys) < MaxCalls
    /\ h_keys' = Append(h_keys,
                        hash_filename(h_in.album_artist, h_in.album, h_in.year,
                                      h_in.mime_type, h_in.image_data))
    /\ UNCHANGED h_in
    /\ UNCHANGED <<meta_vars, main_vars, aux_vars>>

NextHash == HashFilename

SpecHash == InitHash /\ [][NextHash]_vars

(***************************************************************************)
(* The polling specification: main()'s loop (main.rs:132-290), one action  *)
(* per step of an iteration.                                               *)
(***************************************************************************)
\* A cache file left by an earlier run: empty, or one entry for the art of
\* a.flac.
InitialMaps(va) ==
    LET art == Extracted[va][P_a_flac].pack.album_art
    IN  {EmptyMap, [k \in {Unwrap(art).filename} |-> "u1"]}

Init ==
    /\ \E cfg \in [va_album_individual : BOOLEAN, catbox_user_hash : BOOLEAN] :
       \E map \in InitialMaps(cfg.va_album_individual) :
       \E status \in {"Run", "Stop"} :
       \E live \in SUBSET {map[k] : k \in DOMAIN map} :
            MainStart("poll", cfg, map, status, live)
    /\ MetaIdle
    /\ HashIdle
    /\ AuxIdle

Running == pc \notin {"idle", "done", "exited", "panicked"}

\* The loop condition taken as always true.
loop_forever(status) == TRUE

\* main.rs:132: while player_status != ProcessStatus::Stop
loop_condition(status) == status # "Stop"

\* The path test taken as always true: every poll counts as a change.
file_path_always_changed(active, previous) == TRUE

\* main.rs:138: if active_file_path != previous_file_path
file_path_changed(active, previous) == active # previous

\* main.rs:132-138: the loop condition, the two player queries and the
\* comparison with the previous path.
Poll ==
    /\ pc = "poll"
    /\ loop_condition(player_status)
    /\ \E path \in PlayerPaths, duration \in Durations :
        /\ active_file_path' = path
        /\ active_position_duration' = duration
        /\ pc' = IF file_path_changed(path, previous_file_path)
                 THEN "extract" ELSE "refresh"
    /\ ev' = NoEvent
    /\ before' = [cache |-> filename_hash, file |-> hash_file]
    /\ UNCHANGED <<panic_site, config_values, filename_hash, hash_file,
                   previous_file_path, active_file_image_link, metadata_pack,
                   filename_link_pair, tmp_files, presence, player_status,
                   live_urls>>
    /\ UNCHANGED <<meta_vars, hash_vars, aux_vars>>

\* main.rs:132, 289: the loop ends once the status read is Stop.
LoopExit ==
    /\ pc = "poll"
    /\ ~loop_condition(player_status)
    /\ pc' = "done"
    /\ UNCHANGED <<panic_site, prog_vars, live_urls, ev, before>>
    /\ UNCHANGED <<meta_vars, hash_vars, aux_vars>>

\* main.rs:140: read_metadata(..).unwrap()
Extract ==
    /\ pc = "extract"
    /\ LET r == Extracted[config_values.va_album_individual][active_file_path]
       IN  CASE r.kind = "some" ->
                    /\ metadata_pack' = r.pack
                    /\ pc' = "lookup"
                    /\ UNCHANGED panic_site
             [] r.kind = "none" ->
                    /\ pc' = "panicked"
                    /\ panic_site' = "main:read_metadata.unwrap"
                    /\ UNCHANGED metadata_pack
             [] OTHER ->
                    /\ pc' = "panicked"
                    /\ panic_site' = r.site
                    /\ UNCHANGED metadata_pack
    /\ UNCHANGED <<config_values, filename_hash, hash_file, active_file_path,
                   previous_file_path, active_position_duration,
                   active_file_image_link, filename_link_pair, tmp_files,
                   presence, player_status, live_urls, ev, before>>
    /\ UNCHANGED <<meta_vars, hash_vars, aux_vars>>

\* The credential taken as configured whatever the configuration says.
catbox_user_hash_assumed(cfg) == TRUE

\* main.rs:151: config_values.catbox_user_hash.is_some()
catbox_user_hash_is_some(cfg) == cfg.catbox_user_hash

\* main.rs:151-217 up to the call of write_album_art: the credential test,
\* the album_art match and the cache lookup.
Lookup ==
    /\ pc = "lookup"
    /\ IF ~catbox_user_hash_is_some(config_values)
       THEN /\ active_file_image_link' = None
            /\ pc' = "publish"
            /\ ev' = [ev EXCEPT !.lookup = "nocred"]
            /\ UNCHANGED presence
       ELSE IF ~IsSome(metadata_pack.album_art)
       THEN /\ active_file_image_link' = None
            /\ pc' = "publish"
            /\ ev' = [ev EXCEPT !.lookup = "noart"]
            /\ UNCHANGED presence
       ELSE LET album_art == Unwrap(metadata_pack.album_art)
                found == hash_get(filename_hash, album_art.filename)
            IN  IF IsSome(found)
                THEN /\ ev' = [ev EXCEPT !.lookup = "hit",
                                         !.key = album_art.filename,
                                         !.cached = found,
                                         !.cached_live =
                                             Unwrap(found) \in live_urls]
                     /\ IF link_status_good(live_urls, Unwrap(found))
                        THEN /\ active_file_image_link' = Some(Unwrap(found))
                             /\ pc' = "publish"
                             /\ UNCHANGED presence
                        ELSE /\ presence' = NoActivity
                             /\ pc' = "upload"
                             /\ UNCHANGED active_file_image_link
                ELSE /\ ev' = [ev EXCEPT !.lookup = "miss",
                                         !.key = album_art.filename]
                     /\ presence' = NoActivity
                     /\ pc' = "upload"
                     /\ UNCHANGED active_file_image_link
    /\ UNCHANGED <<panic_site, config_values, filename_hash, hash_file,
                   active_file_path, previous_file_path,
                   active_position_duration, metadata_pack, filename_link_pair,
                   tmp_files, player_status, live_urls, before>>
    /\ UNCHANGED <<meta_vars, hash_vars, aux_vars>>

\* main.rs:200 (and 177): trpl::run(write_album_art(..)), and the Err arm
\* (206-208, 183-185), which only logs.
Upload ==
    /\ pc = "upload"
    /\ \E outcome \in UploadOutcomes, url \in Urls :
        LET r == write_album_art(Unwrap(metadata_pack.album_art), outcome, url,
                                 tmp_files)
        IN  /\ tmp_files' = r.tmp
            /\ filename_link_pair' = r.pair
            /\ live_urls' = IF HostStored(outcome) THEN live_urls \cup {url}
                            ELSE live_urls
            /\ pc' = IF r.ok THEN "insert" ELSE "publish"
            /\ ev' = [ev EXCEPT !.uploads = @ + 1,
                                !.tmp_created = CreatesTempFile(outcome),
                                !.upres = IF r.ok THEN "ok" ELSE "err",
                                !.url = IF r.ok THEN url ELSE ""]
    /\ UNCHANGED <<panic_site, config_values, filename_hash, hash_file,
                   active_file_path, previous_file_path,
                   active_position_duration, active_file_image_link,
                   metadata_pack, presence, player_status, before>>
    /\ UNCHANGED <<meta_vars, hash_vars, aux_vars>>

\* The Ok arm publishing the presence before it inserts: set_activity moved
\* in front of filename_hash.insert.
Insert_publishes_first ==
    /\ pc = "insert"
    /\ active_file_image_link' =
            link_after_upload(active_file_image_link, filename_link_pair)
    /\ presence' = Activity(metadata_pack, active_file_image_link',
                            active_file_path)
    /\ filename_hash' = hash_insert(filename_hash, filename_link_pair[1],
                                    filename_link_pair[2])
    /\ pc' = "persist"
    /\ UNCHANGED <<panic_site, config_values, hash_file, active_file_path,
                   previous_file_path, active_position_duration, metadata_pack,
                   filename_link_pair, tmp_files, player_status,
                   live_urls, ev, before>>
    /\ UNCHANGED <<meta_vars, hash_vars, aux_vars>>

\* main.rs:202-203 (179-180): the Ok arm up to the cache insert.
Insert ==
    /\ pc = "insert"
    /\ active_file_image_link' =
            link_after_upload(active_file_image_link, filename_link_pair)
    /\ filename_hash' = hash_insert(filename_hash, filename_link_pair[1],
                                    filename_link_pair[2])
    /\ pc' = "persist"
    /\ UNCHANGED <<panic_site, config_values, hash_file, active_file_path,
                   previous_file_path, active_position_duration, metadata_pack,
                   filename_link_pair, tmp_files, presence, player_status,
                   live_urls, ev, before>>
    /\ UNCHANGED <<meta_vars, hash_vars, aux_vars>>

\* main.rs:204 (181): write_to_hash_file(&filename_hash), Result dropped.
Persist ==
    /\ pc = "persist"
    /\ \E outcome \in PersistOutcomes :
        hash_file' = write_to_hash_file(hash_file, filename_hash, outcome)
    /\ pc' = "publish"
    /\ UNCHANGED <<panic_site, config_values, filename_hash, active_file_path,
                   previous_file_path, active_position_duration,
                   active_file_image_link, metadata_pack, filename_link_pair,
                   tmp_files, presence, player_status, live_urls, ev, before>>
    /\ UNCHANGED <<meta_vars, hash_vars, aux_vars>>

\* main.rs:219-272: the four set_activity arms.  Each builds its timestamps
\* with active_position_duration.1.unwrap().
Publish ==
    /\ pc = "publish"
    /\ IF ~IsSome(active_position_duration)
       THEN /\ pc' = "panicked"
            /\ panic_site' = "main:duration.unwrap"
            /\ UNCHANGED <<presence, ev>>
       ELSE /\ presence' = Activity(metadata_pack, active_file_image_link,
                                    active_file_path)
            /\ ev' = [ev EXCEPT !.published = TRUE]
            /\ pc' = "refresh"
            /\ UNCHANGED panic_site
    /\ UNCHANGED <<config_values, filename_hash, hash_file, active_file_path,
                   previous_file_path, active_position_duration,
                   active_file_image_link, metadata_pack, filename_link_pair,
                   tmp_files, player_status, live_urls, before>>
    /\ UNCHANGED <<meta_vars, hash_vars, aux_vars>>

\* main.rs:276-287: the process table is refreshed; the daemon exits when
\* the player's process is gone, else records its status and the path.
Refresh ==
    /\ pc = "refresh"
    /\ \E status \in {"Run", "Stop", "gone"} :
        /\ ev' = [ev EXCEPT !.process = status]
        /\ IF status = "gone"
           THEN /\ pc' = "exited"
                /\ UNCHANGED <<player_status, previous_file_path>>
           ELSE /\ player_status' = status
                /\ previous_file_path' = active_file_path
                /\ pc' = "poll"
    /\ UNCHANGED <<panic_site, config_values, filename_hash, hash_file,
                   active_file_path, active_position_duration,
                   active_file_image_link, metadata_pack, filename_link_pair,
                   tmp_files, presence, live_urls, before>>
    /\ UNCHANGED <<meta_vars, hash_vars, aux_vars>>

\* The environment: a hosted image stops being served.
LinkRot ==
    /\ Running
    /\ \E u \in live_urls : live_urls' = live_urls \ {u}
    /\ UNCHANGED <<pc, panic_site, prog_vars, ev, before>>
    /\ UNCHANGED <<meta_vars, hash_vars, aux_vars>>

Next ==
    \/ Poll
    \/ LoopExit
    \/ Extract
    \/ Lookup
    \/ Upload
    \/ Insert
    \/ Persist
    \/ Publish
    \/ Refresh
    \/ LinkRot

Spec == Init /\ [][Next]_vars

\* The polling loop as a running process: when the loop condition is false
\* the loop is left (main.rs:132, 289) and does not wait there for ever.
SpecFair == Init /\ [][Next]_vars /\ WF_vars(LoopExit)

(***************************************************************************)
(* The pair specification: hash_filename called on two inputs that differ  *)
(* in exactly one of album artist, album, year and image bytes.            *)
(***************************************************************************)
FingerprintFields == {"album_artist", "album", "year", "image_data"}

DifferingFields(a, b) == {f \in FingerprintFields : a[f] # b[f]}

\* What one hash_filename call feeds to the two CRC32.checksum calls
\* (metadata.rs:59-61), and the key it returns.
Fingerprint(inp) ==
    [fed |-> <<metadata_string(inp.album_artist, inp.album, inp.year),
               inp.image_data>>,
     key |-> hash_filename(inp.album_artist, inp.album, inp.year,
                           inp.mime_type, inp.image_data)]

InitPair ==
    /\ p_a \in HashInputs
    /\ p_b \in HashInputs
    /\ p_a.mime_type = p_b.mime_type
    /\ Cardinality(DifferingFields(p_a, p_b)) = 1
    /\ p_out = << >>
    /\ MetaIdle
    /\ HashIdle
    /\ MainIdle
    /\ ArtIdle
    /\ CacheIdle

\* hash_filename on the first input, then on the second.
FingerprintPair ==
    /\ p_out = << >>
    /\ p_out' = <<Fingerprint(p_a), Fingerprint(p_b)>>
    /\ UNCHANGED <<p_a, p_b>>
    /\ UNCHANGED <<meta_vars, hash_vars, main_vars, art_vars, cache_vars>>

NextPair == FingerprintPair

SpecPair == InitPair /\ [][NextPair]_vars

(***************************************************************************)
(* The image-size specification: write_album_art on a decoded image of a   *)
(* given width and height (main.rs:580-644), failing at a given step.      *)
(***************************************************************************)
InitArt ==
    /\ a_in \in [width : ImageSides, height : ImageSides,
                 outcome : UploadOutcomes]
    /\ a_out = << >>
    /\ MetaIdle
    /\ HashIdle
    /\ MainIdle
    /\ PairIdle
    /\ CacheIdle

\* One call: the size and options are computed once the image is decoded,
\* the image is resized when the pixel type is known and resize succeeds.
WriteAlbumArt ==
    /\ a_out = << >>
    /\ a_out' = <<[plan |-> IF a_in.outcome = "decode" THEN None
                            ELSE Some(resize_plan(<<a_in.width, a_in.height>>)),
                   resized |-> a_in.outcome \notin {"decode", "pixel_type",
                                                    "resize"},
                   ok |-> a_in.outcome = "ok"]>>
    /\ UNCHANGED a_in
    /\ UNCHANGED <<meta_vars, hash_vars, main_vars, pair_vars, cache_vars>>

NextArt == WriteAlbumArt

SpecArt == InitArt /\ [][NextArt]_vars

(***************************************************************************)
(* The cache-file specification: load_hash_file at startup, inserts each   *)
(* followed by write_to_hash_file, and the process ending and starting     *)
(* again, on the file as text.                                             *)
(***************************************************************************)
InitCache ==
    /\ c_pc = "start"
    /\ c_file \in InitialHashFiles
    /\ c_map = EmptyMap
    /\ c_inserts = 0
    /\ c_ev = NoCacheEvent
    /\ MetaIdle
    /\ HashIdle
    /\ MainIdle
    /\ PairIdle
    /\ ArtIdle

\* main.rs:80-86: load_hash_file(); an Err is logged and the process
\* exits with status 1.
LoadHashFile ==
    /\ c_pc = "start"
    /\ \E outcome \in LoadOutcomes :
        LET loaded == load_hash_file(c_file, outcome)
        IN  /\ c_file' = loaded.file
            /\ c_map' = loaded.map
            /\ c_pc' = IF loaded.ok THEN "run" ELSE "exited"
            /\ c_ev' = [c_ev EXCEPT !.load = outcome,
                                    !.was_missing = ~c_file.exists]
    /\ UNCHANGED c_inserts
    /\ UNCHANGED <<meta_vars, hash_vars, main_vars, pair_vars, art_vars>>

\* main.rs:203: filename_hash.insert(key, url).
CacheInsert ==
    /\ c_pc = "run"
    /\ c_inserts < MaxInserts
    /\ \E k \in CacheKeys, u \in CacheUrls :
        /\ c_map' = hash_insert(c_map, k, u)
        /\ c_ev' = [NoCacheEvent EXCEPT !.m = c_map, !.k = k, !.u = u,
                                        !.inserted = TRUE]
    /\ c_inserts' = c_inserts + 1
    /\ c_pc' = "persist"
    /\ UNCHANGED c_file
    /\ UNCHANGED <<meta_vars, hash_vars, main_vars, pair_vars, art_vars>>

\* main.rs:204: write_to_hash_file(&filename_hash); the Result is dropped.
WriteToHashFile ==
    /\ c_pc = "persist"
    /\ \E entries \in IterationOrders(c_map), outcome \in PersistOutcomes,
          half \in BOOLEAN :
        /\ c_file' = write_hash_text(c_file, entries, outcome, half)
        /\ c_ev' = [c_ev EXCEPT !.persisted = outcome]
    /\ c_pc' = "run"
    /\ UNCHANGED <<c_map, c_inserts>>
    /\ UNCHANGED <<meta_vars, hash_vars, main_vars, pair_vars, art_vars>>

\* The process ends (loop exit, exit or crash), before or after the
\* persist, and is started again: the map in memory is gone.
Restart ==
    /\ c_pc \in {"run", "persist"}
    /\ c_pc' = "start"
    /\ c_map' = EmptyMap
    /\ c_ev' = [c_ev EXCEPT !.restarted = TRUE, !.load = "none",
                            !.was_missing = FALSE]
    /\ UNCHANGED <<c_file, c_inserts>>
    /\ UNCHANGED <<meta_vars, hash_vars, main_vars, pair_vars, art_vars>>

NextCache == LoadHashFile \/ CacheInsert \/ WriteToHashFile \/ Restart

SpecCache == InitCache /\ [][NextCache]_vars

(***************************************************************************)
(* Properties of the extraction (SpecMeta) and of the fingerprint          *)
(* (SpecHash).                                                             *)
(***************************************************************************)
\* The reader read_metadata dispatches m_path to: "flac", "id3" or "none".
MetaReader ==
    LET split == rsplit_once(m_path, DotByte)
    IN  IF ~IsSome(split) THEN "none"
        ELSE IF Unwrap(split)[2] = S_flac THEN "flac"
        ELSE IF Unwrap(split)[2] \in {S_mp3, S_wav} THEN "id3"
        ELSE "none"

\* The album as tagged in the file (all values, joined), or None.
TaggedAlbum ==
    IF MetaReader = "flac"
    THEN (IF m_file.album = << >> THEN None
          ELSE Some(Join(m_file.album, S_CommaSpace)))
    ELSE m_file.id3_album

\* The year the reader hands to the fingerprint.
TaggedYear ==
    IF MetaReader = "flac"
    THEN (IF m_file.year = << >> THEN None ELSE ParseU16(m_file.year[1]))
    ELSE (IF m_file.id3_year = None THEN None
          ELSE TryFromI32(Unwrap(m_file.id3_year)))

ArtSuffix ==
    IF m_file.pictures # << >> /\ m_file.pictures[1].mime_type = "image/png"
    THEN S_DotPng ELSE S_DotJpg

HasArtistAndTitle ==
    IF MetaReader = "flac"
    THEN m_file.artist # << >> /\ m_file.title # << >>
    ELSE m_file.artists # None /\ m_file.id3_title # None

\* The key the specification describes: "<checksum of composite>-<checksum
\* of image bytes><suffix>", composite = album_artist, album, year in that
\* order, "0" for each absent field.
OrZero(o) == IF o = None THEN S_Zero ELSE Unwrap(o)

ExpectedKey(album_artist, album, year, suffix, data) ==
    U32Digits(checksum(OrZero(album_artist) \o OrZero(album)
                       \o (IF year = None THEN S_Zero
                           ELSE U16ToString(Unwrap(year)))))
    \o S_Dash \o U32Digits(checksum(data)) \o suffix

\* C7: with the policy enabled, a FLAC file without album-artist (or
\* without album) values is extracted without a crash: album_artist is None
\* when there is no album-artist value and the album is passed through.
C7_EmptyTagListNoCrash ==
    (/\ m_pc = "done"
     /\ MetaReader = "flac"
     /\ m_file.readable
     /\ m_va
     /\ (m_file.albumartist = << >> \/ m_file.album = << >>))
    => /\ m_result.kind # "panic"
       /\ (m_result.kind = "some" /\ m_file.albumartist = << >>)
            => /\ m_result.pack.album_artist = None
               /\ (Len(m_file.album) <= 1 => m_result.pack.album = TaggedAlbum)

\* C8: for both readers the album of the result is None exactly when the
\* album tag is absent or the policy is enabled and album_artist and album
\* are both exactly "Various Artists"; otherwise it is the tagged album.
\* (Stated for files with a single album value.)
C8_AlbumNoneExactly ==
    (/\ m_pc = "done"
     /\ MetaReader \in {"flac", "id3"}
     /\ m_file.readable
     /\ HasArtistAndTitle
     /\ Len(m_file.album) <= 1)
    => /\ m_result.kind = "some"
       /\ (m_result.pack.album = None)
            <=> \/ TaggedAlbum = None
                \/ /\ m_va
                   /\ m_result.pack.album_artist = Some(S_VariousArtists)
                   /\ TaggedAlbum = Some(S_VariousArtists)
       /\ (m_result.pack.album # None => m_result.pack.album = TaggedAlbum)

\* C9 as stated: the key of an extracted image is derived from the album
\* as tagged in the file, before the various-artists suppression.
C9_KeyFromTaggedAlbum ==
    (/\ m_pc = "done"
     /\ m_result.kind = "some"
     /\ m_result.pack.album_art # None
     /\ Len(m_file.album) <= 1)
    => Unwrap(m_result.pack.album_art).filename
         = ExpectedKey(m_result.pack.album_artist, TaggedAlbum, TaggedYear,
                       ArtSuffix, m_file.pictures[1].data)

\* C9 amended: the key of an extracted image is derived from the album of
\* the returned package, that is after the suppression: a suppressed album
\* enters the key as the placeholder "0".
C9_KeyFromPublishedAlbum ==
    (/\ m_pc = "done"
     /\ m_result.kind = "some"
     /\ m_result.pack.album_art # None)
    => Unwrap(m_result.pack.album_art).filename
         = ExpectedKey(m_result.pack.album_artist, m_result.pack.album,
                       TaggedYear, ArtSuffix, m_file.pictures[1].data)

\* A suppressed compilation with an embedded image has been extracted.
C9_Witness ==
    /\ m_pc = "done"
    /\ m_result.kind = "some"
    /\ m_result.pack.album_art # None
    /\ TaggedAlbum = Some(S_VariousArtists)
    /\ m_result.pack.album = None

\* C10: every key hash_filename returns has the form
\* "<checksum of composite>-<checksum of image bytes><suffix>" with suffix
\* ".jpg" or ".png", and all calls on one input return the same key.
C10_KeyForm ==
    \A i \in 1..Len(h_keys) :
        /\ h_keys[i] = ExpectedKey(h_in.album_artist, h_in.album, h_in.year,
                                   h_in.mime_type, h_in.image_data)
        /\ h_in.mime_type \in {S_DotJpg, S_DotPng}
        /\ h_keys[i] = h_keys[1]

\* hash_filename has been called MaxCalls times on an input with a present
\* album artist, an absent album and a present year.
C10_Witness ==
    /\ Len(h_keys) = MaxCalls
    /\ h_in.album_artist = Some(S_VariousArtists)
    /\ h_in.album = None
    /\ h_in.year = Some(2001)
(***************************************************************************)
(* Properties of the polling loop (Spec).                                  *)
(***************************************************************************)
\* C1: on a track change whose art key is absent from the cache (credential
\* configured) the upload pipeline runs exactly once; if it returns URL u,
\* the cache maps the key to u from the insert on, and the presence
\* published for the track carries u as its image.
C1_MissUploadsOnce ==
    ev.lookup = "miss" =>
        /\ config_values.catbox_user_hash
        /\ ev.key \notin DOMAIN before.cache
        /\ ev.uploads = IF pc = "upload" THEN 0 ELSE 1
        /\ (ev.upres = "ok" /\ pc # "insert")
              => /\ ev.key \in DOMAIN filename_hash
                 /\ filename_hash[ev.key] = ev.url
        /\ ev.published
              => /\ presence.set
                 /\ presence.path = active_file_path
                 /\ (ev.upres = "ok" => presence.large_image = ev.url)

\* A cache miss was uploaded successfully and the presence was published.
C1_Witness ==
    /\ ev.lookup = "miss"
    /\ ev.upres = "ok"
    /\ ev.published
    /\ presence.large_image = ev.url
    /\ filename_hash[ev.key] = ev.url

\* C2: when the key is cached but the cached URL is not live, the asset is
\* uploaded again, the cache value is replaced by the new URL, and the dead
\* URL is not published as the track's image.
C2_DeadLinkReuploaded ==
    (ev.lookup = "hit" /\ ~ev.cached_live /\ pc \in {"publish", "refresh"})
    => /\ ev.uploads = 1
       /\ ev.upres = "ok" => filename_hash[ev.key] = ev.url
       /\ ev.published
            => presence.large_image # Unwrap(ev.cached) \/ ev.url = Unwrap(ev.cached)

\* C3: on a track change whose key is cached with a live URL, the upload
\* pipeline is not invoked, the cache is unchanged in memory and on disk,
\* and the cached URL is the image published for the track.
C3_LiveHitReusesLink ==
    (ev.lookup = "hit" /\ ev.cached_live)
    => /\ ev.uploads = 0
       /\ filename_hash = before.cache
       /\ hash_file = before.file
       /\ ev.cached = hash_get(before.cache, ev.key)
       /\ ev.published
            => /\ presence.path = active_file_path
               /\ presence.large_image = Unwrap(ev.cached)

\* A live cache hit was published.
C3_Witness ==
    /\ ev.lookup = "hit"
    /\ ev.cached_live
    /\ ev.published
    /\ pc = "refresh"

\* C4: when the upload pipeline fails, the presence is still published and
\* its image is "no_album_art".  (Stated for tracks whose duration the
\* player reports, at the end of the iteration.)
C4_FailedUploadDefaultImage ==
    (ev.upres = "err" /\ IsSome(active_position_duration) /\ pc = "refresh")
    => /\ ev.published
       /\ presence.path = active_file_path
       /\ presence.large_image = "no_album_art"

\* C5: once write_album_art has returned, a temporary file it created no
\* longer exists.
C5_TempFileRemoved ==
    (ev.tmp_created /\ pc # "upload") => ev.key \notin tmp_files

\* C6: a per-track recoverable extraction error (extraction yields nothing,
\* or the path has no '.') does not terminate the process.
C6_RecoverableNeverTerminates ==
    pc = "panicked"
    => panic_site \notin {"main:read_metadata.unwrap", "read_metadata:rsplit_once"}

(***************************************************************************)
(* Properties of two fingerprints (SpecPair).                              *)
(***************************************************************************)
\* The one differing field is absent in one input and holds the placeholder
\* ("0", or the year 0) in the other.
PlaceholderAlias(a, b) ==
    \E f \in DifferingFields(a, b) :
        \/ f \in {"album_artist", "album"} /\ {a[f], b[f]} = {None, Some(S_Zero)}
        \/ f = "year" /\ {a[f], b[f]} = {None, Some(0)}

\* C11 (as stated): two fingerprint inputs that differ in exactly one of
\* album artist, album, year and image bytes feed different data to the
\* checksums, an absent field and a field holding "0" (or the year 0)
\* included.
C11_OneFieldChangesFedData ==
    p_out # << >> => p_out[1].fed # p_out[2].fed

\* C11 (amended): two fingerprint inputs that differ in exactly one of the
\* four feed the same data to the checksums exactly when the differing field
\* is absent in one and holds the placeholder "0" (year: 0) in the other; in
\* every other case the fed data differ, and so do the keys.
C11_OneFieldChangesFedDataButPlaceholder ==
    p_out # << >> =>
        /\ (p_out[1].fed = p_out[2].fed) <=> PlaceholderAlias(p_a, p_b)
        /\ (p_out[1].key = p_out[2].key) <=> PlaceholderAlias(p_a, p_b)

\* Two computed fingerprints of inputs that differ in the year only, one of
\* them without a year, the other with the year 7.
C11_Witness ==
    /\ p_out # << >>
    /\ DifferingFields(p_a, p_b) = {"year"}
    /\ p_a.year = None /\ p_b.year = Some(7)
    /\ p_out[1].fed # p_out[2].fed

(***************************************************************************)
(* Properties of the image size (SpecArt).                                 *)
(***************************************************************************)
\* The image was decoded and its destination size computed.
ArtPlanned == a_out # << >> /\ IsSome(a_out[1].plan)

ArtPlan == Unwrap(a_out[1].plan)

SmallerSide == IF a_in.width > a_in.height THEN a_in.height ELSE a_in.width

\* C12: a non-square image with smaller side r is resized, cropped around
\* its center, to r x r when 512 < r < 1024, to 1024 x 1024 when r >= 1024
\* (exactly 1024 included) and to 512 x 512 when r <= 512.
C12_NonSquareTarget ==
    (ArtPlanned /\ a_in.width # a_in.height) =>
        /\ ArtPlan.fit_into_destination = Some(<<"0.5", "0.5">>)
        /\ ArtPlan.dst =
              IF SmallerSide >= 1024 THEN <<1024, 1024>>
              ELSE IF SmallerSide <= 512 THEN <<512, 512>>
              ELSE <<SmallerSide, SmallerSide>>

\* C13: a square image of side s is resized without cropping to 512 x 512
\* when s < 512, to 1024 x 1024 when s > 1024, and keeps its side s
\* otherwise.
C13_SquareTarget ==
    (ArtPlanned /\ a_in.width = a_in.height) =>
        /\ ArtPlan.fit_into_destination = None
        /\ a_in.width < 512 => ArtPlan.dst = <<512, 512>>
        /\ a_in.width > 1024 => ArtPlan.dst = <<1024, 1024>>
        /\ (512 <= a_in.width /\ a_in.width <= 1024) =>
                ArtPlan.dst = <<a_in.width, a_in.height>>

\* A square image larger than the upper limit, resized.
C13_Witness ==
    /\ ArtPlanned
    /\ a_out[1].resized
    /\ a_in.width = 2000 /\ a_in.height = 2000
    /\ ArtPlan.dst = <<1024, 1024>>

(***************************************************************************)
(* Properties of the extraction (SpecMeta): required fields, unsupported   *)
(* images, unreadable years and the dispatch.                              *)
(***************************************************************************)
\* The diagnostic d was handed to error_log::log_error by the call.
Logged(d) == \E i \in 1..Len(m_result.logs) : m_result.logs[i] = d

\* The artist values of the file, joined, and its (first) title value.
TaggedArtist ==
    IF MetaReader = "flac" THEN Join(m_file.artist, S_CommaSpace)
    ELSE Join(Unwrap(m_file.artists), S_CommaSpace)

TaggedTitle ==
    IF MetaReader = "flac" THEN m_file.title[1] ELSE Unwrap(m_file.id3_title)

\* C14: for both readers a package is returned only if the file has at
\* least one artist and one title value, the result is nothing if either is
\* absent, and a returned package carries the tagged artist and title.
C14_RequiredFields ==
    (/\ m_pc = "done"
     /\ MetaReader \in {"flac", "id3"}
     /\ m_file.readable)
    => /\ m_result.kind = "some" => HasArtistAndTitle
       /\ ~HasArtistAndTitle => m_result.kind = "none"
       /\ m_result.kind = "some"
            => /\ m_result.pack.artist = TaggedArtist
               /\ m_result.pack.title = TaggedTitle

\* The policy test of read_vorbis does not index an empty tag list on this
\* input (the crash of C7 is set aside).
PolicyTestSafe ==
    (MetaReader = "flac" /\ m_va)
        => (m_file.albumartist # << >> /\ m_file.album # << >>)

\* C15: when the first embedded image is neither JPEG nor PNG, and artist
\* and title are present, both readers return a package without album art
\* and log a diagnostic.
C15_UnsupportedImageLogged ==
    (/\ m_pc = "done"
     /\ MetaReader \in {"flac", "id3"}
     /\ m_file.readable /\ m_file.cover_readable
     /\ HasArtistAndTitle
     /\ PolicyTestSafe
     /\ m_file.pictures # << >>
     /\ m_file.pictures[1].mime_type \notin {"image/jpeg", "image/png"})
    => /\ m_result.kind = "some"
       /\ m_result.pack.album_art = None
       /\ Logged("unsupported_mime")

\* The file carries a year that is not a 16-bit unsigned integer: a text
\* with a letter or beyond 65535, or a number outside 0..65535.
YearUnreadable ==
    IF MetaReader = "flac"
    THEN m_file.year # << >> /\ m_file.year[1] \in {S_NotAYear, S_70000}
    ELSE m_file.id3_year \in {Some(70000), Some(-1)}

\* The same file without its year tag.
FileWithoutYear == [m_file EXCEPT !.year = << >>, !.id3_year = None]

\* C16: a year that is not a u16 is logged and treated as absent: the call
\* ends as it does on the same file without a year tag, with the same
\* package and the same key; an unreadable tag container yields nothing.
C16_UnreadableYearIsAbsent ==
    (m_pc = "done" /\ MetaReader \in {"flac", "id3"})
    => /\ ~m_file.readable => m_result.kind = "none"
       /\ (m_file.readable /\ YearUnreadable)
            => LET without == read_metadata(m_path, FileWithoutYear, m_va)
               IN  /\ m_result.kind = without.kind
                   /\ m_result.pack = without.pack
                   /\ m_result.kind = "some" => Logged("year_not_u16")

\* A package with album art extracted from a FLAC file whose year is "20x",
\* and one from an ID3 file whose year is 70000.
C16_Witness ==
    /\ m_pc = "done"
    /\ m_result.kind = "some"
    /\ m_result.pack.album_art # None
    /\ Logged("year_not_u16")
    /\ \/ MetaReader = "flac" /\ m_file.year = <<S_NotAYear>>
       \/ MetaReader = "id3" /\ m_file.id3_year = Some(70000)

\* C17: "flac" after the last '.' goes to the comment reader, "mp3" and
\* "wav" to the frame reader; every other path, one without any '.'
\* included, yields nothing with one diagnostic, whatever the file holds.
C17_Dispatch ==
    m_pc = "done"
    => m_result = CASE MetaReader = "flac" -> read_vorbis(m_file, m_va)
                    [] MetaReader = "id3" -> read_id3(m_file, m_va)
                    [] OTHER -> ReturnNone(<<"unsupported_format">>)

(***************************************************************************)
(* Properties of the cache file (SpecCache).                               *)
(***************************************************************************)
\* C18: an entry (k, u) inserted into a map m and persisted is read back by
\* the next load as m with k mapped to u: every other entry of m is kept
\* and nothing of the file's previous content remains.
C18_RoundTrip ==
    (/\ c_ev.inserted
     /\ c_ev.persisted = "ok"
     /\ c_ev.restarted
     /\ c_ev.load = "ok")
    => /\ c_pc = "run"
       /\ c_map = hash_insert(c_ev.m, c_ev.k, c_ev.u)

\* A second entry, with a quote in its key, read back together with the
\* entry the map held before.
C18_Witness ==
    /\ c_ev.inserted /\ c_ev.persisted = "ok"
    /\ c_ev.restarted /\ c_ev.load = "ok"
    /\ c_pc = "run"
    /\ c_ev.k = K_quote
    /\ DOMAIN c_ev.m = {K_a}
    /\ DOMAIN c_map = {K_a, K_quote}

\* C19: when the file does not exist at startup the load succeeds with an
\* empty map, the process goes on, and the file now exists with a content
\* that a later load reads as the empty map.
C19_MissingFileCreated ==
    (c_ev.was_missing /\ c_ev.load = "ok")
    => /\ c_pc = "run"
       /\ c_map = EmptyMap
       /\ c_file.exists
       /\ load_hash_file(c_file, "ok")
            = [ok |-> TRUE, map |-> EmptyMap, file |-> c_file]

\* The process runs after a startup that found no file.
C19_Witness ==
    /\ c_ev.was_missing /\ c_ev.load = "ok"
    /\ c_pc = "run"
    /\ c_file = HashFile(S_NewHashFile)

(***************************************************************************)
(* Properties of the cache and its file in main()'s loop (Spec).           *)
(***************************************************************************)
\* The keys of the cache in memory whose entry a load of the file would
\* not return.
UnpersistedKeys ==
    { k \in DOMAIN filename_hash :
        \/ ~hash_file.valid
        \/ k \notin DOMAIN hash_file.map
        \/ hash_file.map[k] # filename_hash[k] }

\* C20: at every point of the run, after a failed persist and at every end
\* of the process included, at most one entry of the cache in memory is
\* missing from the file, and between an insert and its persist that entry
\* is the one just inserted.
C20_AtMostOneUnpersisted ==
    /\ Cardinality(UnpersistedKeys) <= 1
    /\ pc = "persist" => UnpersistedKeys \subseteq {filename_link_pair[1]}

(***************************************************************************)
(* Properties of the order of the steps in main()'s loop (Spec).           *)
(***************************************************************************)
\* One step of the loop keeps the order extraction (with normalization and
\* fingerprint inside read_metadata), cache lookup, upload, cache insert,
\* persist, publish, end-of-iteration check; each effect belongs to its
\* step, and the path of the next event is read only at the loop head.
StepOrderKept ==
    /\ pc = "poll" => pc' \in {"poll", "extract", "refresh", "done"}
    /\ pc = "extract" => pc' \in {"extract", "lookup", "panicked"}
    /\ pc = "lookup" => pc' \in {"lookup", "upload", "publish"}
    /\ pc = "upload" => pc' \in {"upload", "insert", "publish"}
    /\ pc = "insert" => pc' \in {"insert", "persist"}
    /\ pc = "persist" => pc' \in {"persist", "publish"}
    /\ pc = "publish" => pc' \in {"publish", "refresh", "panicked"}
    /\ pc = "refresh" => pc' \in {"refresh", "poll", "exited"}
    /\ active_file_path' # active_file_path => pc = "poll"
    /\ metadata_pack' # metadata_pack => pc = "extract"
    /\ tmp_files' # tmp_files => pc = "upload"
    /\ filename_hash' # filename_hash => pc = "insert"
    /\ hash_file' # hash_file => pc = "persist"
    /\ presence' # presence
         => /\ pc \in {"lookup", "publish"}
            /\ presence'.set => pc = "publish"

\* C21: the steps of a track-change event occur in the order extraction,
\* normalization, fingerprint, cache lookup, optional upload, cache insert,
\* publish, and every step of one event is complete before a step of the
\* next event begins.
C21_StepsInOrder == [][StepOrderKept]_vars

\* The second event of a run went through every step: miss, upload,
\* insert, persist and publish.
C21_Witness ==
    /\ pc = "refresh"
    /\ previous_file_path # S_Empty
    /\ ev.lookup = "miss" /\ ev.upres = "ok" /\ ev.published
    /\ hash_file.valid /\ ev.key \in DOMAIN hash_file.map

(***************************************************************************)
(* Properties of the cache in memory (Spec).                               *)
(***************************************************************************)
\* One step keeps every key of the cache; a key gets a value, or another
\* value, only in the insert that follows a successful upload of the asset
\* with that key, and the value is the URL the upload returned; the step
\* in which an upload fails changes neither the cache nor its file.
CacheStep ==
    /\ DOMAIN filename_hash \subseteq DOMAIN filename_hash'
    /\ \A k \in DOMAIN filename_hash' :
          (k \notin DOMAIN filename_hash \/ filename_hash'[k] # filename_hash[k])
            => /\ pc = "insert"
               /\ ev.upres = "ok"
               /\ k = ev.key
               /\ k = Unwrap(metadata_pack.album_art).filename
               /\ filename_hash'[k] = ev.url
    /\ (pc = "upload" /\ pc' = "publish")
            => (filename_hash' = filename_hash /\ hash_file' = hash_file)

\* C22: the key set of the cache never shrinks, a key maps to one URL, the
\* value of a key changes only through a successful upload of the asset
\* with that key, and an event whose upload failed leaves the cache and its
\* file as they were when the event began.
C22_CacheGrowsByUploads ==
    /\ [][CacheStep]_vars
    /\ [](/\ \A k \in DOMAIN filename_hash : filename_hash[k] \in Urls
          /\ ev.upres = "err"
                => (filename_hash = before.cache /\ hash_file = before.file))

\* A second key has just been inserted next to the one the cache held.
C22_Witness ==
    /\ pc = "persist"
    /\ ev.upres = "ok"
    /\ Cardinality(DOMAIN before.cache) = 1
    /\ Cardinality(DOMAIN filename_hash) = 2

(***************************************************************************)
(* Properties of multi-valued tags (SpecMeta).                             *)
(***************************************************************************)
\* All values of a tag joined with ", ", or None when there is none.
JoinedOrNone(values) ==
    IF values = << >> THEN None ELSE Some(Join(values, S_CommaSpace))

Processing ==
    pc \in {"extract", "lookup", "upload", "insert", "persist", "publish"}

\* One step: the loop head starts an event exactly when the path read
\* differs from the previous one; package, cache, temporary files and
\* presence change only while such an event is processed; the publish step
\* is never taken for an event that has published.
ChangeStep ==
    /\ (pc = "poll" /\ pc' # "poll" /\ pc' # "done")
         => (pc' = "extract" <=> active_file_path' # previous_file_path)
    /\ (\/ metadata_pack' # metadata_pack
        \/ filename_hash' # filename_hash
        \/ hash_file' # hash_file
        \/ tmp_files' # tmp_files
        \/ presence' # presence)
         => (Processing /\ active_file_path # previous_file_path)
    /\ (pc = "publish" /\ pc' = "refresh") => ~ev.published

\* C24: extraction, cache access, upload and publish happen in an iteration
\* if and only if the path read differs from the path of the previous
\* iteration; a poll that returns the same path causes none of them, and a
\* path change causes at most one publish.
C24_ProcessedIffPathChanged ==
    /\ [][ChangeStep]_vars
    /\ [](/\ Processing => active_file_path # previous_file_path
          /\ pc = "refresh"
               => IF active_file_path = previous_file_path
                  THEN ev.lookup = "none" /\ ev.uploads = 0 /\ ~ev.published
                  ELSE ev.lookup # "none" /\ ev.published)

\* The player reports the track that was published in the previous
\* iteration: the iteration goes straight to its end.
C24_Witness ==
    /\ pc = "refresh"
    /\ active_file_path = previous_file_path
    /\ presence.set
    /\ presence.path = active_file_path
    /\ ev.lookup = "none"

(***************************************************************************)
(* Properties of a run without upload-host credential (Spec).              *)
(***************************************************************************)
\* C25: when no credential is configured a track change looks nothing up
\* in the cache, uploads nothing and inserts nothing, whether or not the
\* file has embedded art or its key is cached, and the presence it
\* publishes carries the default image "no_album_art".
C25_NoCredentialNoUpload ==
    ~config_values.catbox_user_hash
    => /\ ev.lookup \in {"none", "nocred"}
       /\ ev.uploads = 0
       /\ pc \notin {"upload", "insert", "persist"}
       /\ tmp_files = {}
       /\ filename_hash = before.cache /\ hash_file = before.file
       /\ presence.set => presence.large_image = "no_album_art"

\* Without credential, a track with embedded art whose key is in the cache
\* has been published.
C25_Witness ==
    /\ ~config_values.catbox_user_hash
    /\ ev.published
    /\ IsSome(metadata_pack.album_art)
    /\ Unwrap(metadata_pack.album_art).filename \in DOMAIN filename_hash
    /\ presence.path = active_file_path
    /\ presence.large_image = "no_album_art"

(***************************************************************************)
(* Properties of a track without duration (Spec).                          *)
(***************************************************************************)
\* C26: a track change for which the player reports no duration does not
\* end the process: once its extraction and cache handling are done, its
\* presence is published and the iteration reaches its end.
C26_NoDurationStillPublished ==
    (/\ active_position_duration = None
     /\ ev.lookup # "none"
     /\ pc \in {"refresh", "panicked"})
    => /\ pc = "refresh"
       /\ ev.published
       /\ presence.path = active_file_path

(***************************************************************************)
(* Properties of the end of the loop (Spec with fairness, SpecFair).       *)
(***************************************************************************)
\* One step: once the status recorded is Stop, the only step of the daemon
\* is to leave the loop, and it handles no track any more; the
\* end-of-iteration check ends the process when the player's process is
\* gone and records Stop when it is stopped; the loop is left only on Stop
\* and the process exits from the check only when the process is gone.
ExitStep ==
    /\ (pc = "poll" /\ player_status = "Stop")
         => (pc' \in {"poll", "done"} /\ UNCHANGED prog_vars)
    /\ (pc = "refresh" /\ pc' # "refresh")
         => /\ ev'.process = "gone" <=> pc' = "exited"
            /\ ev'.process = "Stop" <=> (pc' = "poll" /\ player_status' = "Stop")
    /\ (pc' = "done" /\ pc # "done") => (pc = "poll" /\ player_status = "Stop")
    /\ (pc' = "exited" /\ pc # "exited") => pc = "refresh"
    /\ pc \in {"done", "exited"} => UNCHANGED <<pc, prog_vars>>

\* C27: once the end-of-iteration check has found the player's process
\* gone or in status Stop, the daemon handles no further track change and
\* terminates; while the process is present and not in status Stop the
\* loop is not left.
C27_StopsWithPlayer ==
    /\ [][ExitStep]_vars
    /\ [](pc = "done" => player_status = "Stop")
    /\ [](pc = "exited" => ev.process = "gone")
    /\ (pc = "poll" /\ player_status = "Stop") ~> (pc = "done")

\* A track was published, the check then found the player stopped, and the
\* loop was left.
C27_Witness ==
    /\ pc = "done"
    /\ ev.process = "Stop"
    /\ presence.set
    /\ previous_file_path = active_file_path

====
